---- MODULE Spec2Model ----
(***************************************************************************)
(* Batch dispatcher of actions.py: one BatchAction instance, used by one   *)
(* caller that awaits each execute call before it starts the next, on an   *)
(* asyncio event loop.  A step of the model is one run of a coroutine      *)
(* between two suspension points: execute up to its gather, a unit of work *)
(* up to its device call, a unit of work from the completion of its device *)
(* call to its end, execute from the completion of gather to its return.   *)
(* A reader (get_results, get_success_rate, print_results) may run between *)
(* any two steps.                                                          *)
(***************************************************************************)
EXTENDS Integers, Sequences, FiniteSets, TLC

\* longest devices sequence handed to execute
MaxLen == 3
\* how far beyond the ends of 0..100 a requested level may lie
MaxExcess == 5
\* most predicates (leaf and composite) in one composed filter
MaxNodes == 4
\* most member predicates of one FilterGroup
MaxFilters == 3
\* most devices held by the DeviceCollection
MaxDevices == 2
MaxRules == 2
MaxCalls == 2

VARIABLES
    action,     \* the BatchAction instance: class and constructor parameters
    results,    \* self.results, the Result Table: device_id -> outcome record
    phase,      \* "Idle", "Executing", "Reported"; "Failed" if execute raised
    devices,    \* the devices argument of the current (or last) execute call
    tasks,      \* the units of work handed to asyncio.gather by that call
    stale,      \* the table the current call replaced held a key of no device of this call
    invoked,    \* per device: device operations invoked during this call
    writes,     \* per device_id: writes of its key during this call
    stamp,      \* per key of results: written by "this" call or by an "earlier" one
    own,        \* per device: outcome of its unit of work that ended last
    observed,   \* what the reader's call returned, when the last step was a reader's
    call,       \* the last call of a constructor, of create_action or of matches
    ret,        \* what that call returned or raised
    overlap,    \* two execute calls on one instance: the dict objects, self.results, the calls
    collection, \* a DeviceCollection: name, devices, device_ids, controller
    files,      \* the collection files on disk: path -> saved JSON object
    controller, \* a SmartThingsController: its rooms cache, and the get_rooms calls made
    location    \* the rules at the location of a WateringController, and its daily runs

vars == <<action, results, phase, devices, tasks, stale, invoked, writes, stamp, own, observed,
          call, ret, overlap, collection, files, controller, location>>

\* the variables of the objects other than the dispatcher and the last call
ovars == <<overlap, collection, files, controller, location>>
Unused == [op |-> "none"]
OthersUnused ==
    /\ overlap = Unused
    /\ collection = Unused
    /\ files = Unused
    /\ controller = Unused
    /\ location = Unused

(***************************************************************************)
(* Devices (devices.py).  A device is identified by its device_id.         *)
(***************************************************************************)
Devices == {"d1", "d2", "d3"}

\* the attributes the underlying SmartThings device object of d has; the
\* read of any other attribute of it raises AttributeError.  "d4" and "d5"
\* are met by the predicates only: "d4" wraps an object without any of the
\* attributes, "d5" one whose status has a battery reading although its
\* capabilities do not list "battery"
st_attrs(d) ==
    IF d = "d4" THEN {}
    ELSE {"label", "capabilities", "status", "type", "components", "room_id"}

st_capabilities(d) ==
    CASE d = "d1" -> {"switch", "switchLevel"}
      [] d = "d2" -> {"switch", "switchLevel", "battery"}
      [] d = "d4" -> {}
      [] d = "d5" -> {"switch"}
      [] OTHER    -> {"battery"}

st_label(d) ==
    CASE d = "d1" -> "Lamp"
      [] d = "d2" -> "Dimmer"
      [] d = "d5" -> "Plug"
      [] OTHER    -> "Sensor"

Device_name(d) == st_label(d)

Device_device_id(d) == d

\* "try: return capability in self._st_device.capabilities / except: return False"
Device_has_capability(d, capability) ==
    IF "capabilities" \in st_attrs(d) THEN capability \in st_capabilities(d) ELSE FALSE

\* outcomes of an awaited call
Return(v) == [kind |-> "return", value |-> v]
Raise(cls, msg) == [kind |-> "raise", exc |-> [cls |-> cls, msg |-> msg]]

\* str(e) of an exception raised with one message argument
Str(e) == e.msg

\* what a call of the underlying SmartThings device object may do
Msgs == {"timeout"}
StOutcomes == {Return("None")} \cup {Raise("ClientError", m) : m \in Msgs}

Device_turn_on(d, st) ==
    IF Device_has_capability(d, "switch")
    THEN st
    ELSE Raise("ValueError", "Device " \o Device_name(d) \o " does not have switch capability")

Device_turn_off(d, st) ==
    IF Device_has_capability(d, "switch")
    THEN st
    ELSE Raise("ValueError", "Device " \o Device_name(d) \o " does not have switch capability")

Device_set_level(d, level, st) ==
    IF ~(0 <= level /\ level <= 100)
    THEN Raise("ValueError", "Level must be between 0 and 100")
    ELSE IF Device_has_capability(d, "switchLevel")
         THEN st
         ELSE Raise("ValueError", "Device " \o Device_name(d) \o " does not have switchLevel capability")

\* refresh swallows the failure of the underlying refresh and returns False
Device_refresh(d, st) ==
    IF st.kind = "return" THEN Return("True") ELSE Return("False")

(***************************************************************************)
(* The Action instance and its Result Table (actions.py).                  *)
(***************************************************************************)
Levels == {30, 100}

Actions ==
    {[cls |-> "SwitchAction", turn_on |-> b] : b \in BOOLEAN}
    \cup {[cls |-> "RefreshAction"]}
    \cup {[cls |-> "LevelAction", level |-> l] : l \in Levels}
    \cup {[cls |-> "CustomAction"]}

\* what the user-provided action_func may do when awaited on a device
CustomOutcomes == {Return("r1"), Return("r2"), Raise("RuntimeError", "custom failed")}

\* Python dicts: the empty dict, d[k] = v, d.get(k, default)
EmptyDict == << >>
Put(t, k, v) == [x \in (DOMAIN t) \cup {k} |-> IF x = k THEN v ELSE t[x]]
Get(r, k, default) == IF k \in DOMAIN r THEN r[k] ELSE default

\* "except Exception": the classes the handlers of the units of work catch
ExceptionClasses == {"Exception", "ValueError", "RuntimeError", "ClientError"}
CatchesNothing(e) == FALSE
Catches(e) == e.cls \in ExceptionClasses

\* the end of a unit of work: its record written, or its exception let through
Wrote(rec) == [st |-> "done", rec |-> rec]
Propagated == [st |-> "raised"]

TurnOnRecordsOff(d, out) ==
    IF out.kind = "return"
    THEN Wrote([success |-> TRUE, action |-> "off", name |-> Device_name(d)])
    ELSE Wrote([success |-> FALSE, action |-> "off", error |-> Str(out.exc),
                name |-> Device_name(d)])
SwitchAction_turn_on_device(d, out) ==
    IF out.kind = "return"
    THEN Wrote([success |-> TRUE, action |-> "on", name |-> Device_name(d)])
    ELSE IF Catches(out.exc)
         THEN Wrote([success |-> FALSE, action |-> "on", error |-> Str(out.exc),
                     name |-> Device_name(d)])
         ELSE Propagated

SwitchAction_turn_off_device(d, out) ==
    IF out.kind = "return"
    THEN Wrote([success |-> TRUE, action |-> "off", name |-> Device_name(d)])
    ELSE IF Catches(out.exc)
         THEN Wrote([success |-> FALSE, action |-> "off", error |-> Str(out.exc),
                     name |-> Device_name(d)])
         ELSE Propagated

RefreshAction_refresh_device(d, out) ==
    IF out.kind = "return"
    THEN Wrote([success |-> TRUE, action |-> "refresh", name |-> Device_name(d)])
    ELSE IF Catches(out.exc)
         THEN Wrote([success |-> FALSE, action |-> "refresh", error |-> Str(out.exc),
                     name |-> Device_name(d)])
         ELSE Propagated

SetLevelFailureWithoutLevel(level, d, out) ==
    IF out.kind = "return"
    THEN Wrote([success |-> TRUE, action |-> "setLevel", level |-> level,
                name |-> Device_name(d)])
    ELSE Wrote([success |-> FALSE, action |-> "setLevel",
                error |-> Str(out.exc), name |-> Device_name(d)])
LevelAction_set_level(level, d, out) ==
    IF out.kind = "return"
    THEN Wrote([success |-> TRUE, action |-> "setLevel", level |-> level,
                name |-> Device_name(d)])
    ELSE IF Catches(out.exc)
         THEN Wrote([success |-> FALSE, action |-> "setLevel", level |-> level,
                     error |-> Str(out.exc), name |-> Device_name(d)])
         ELSE Propagated

CustomAction_execute_action(d, out) ==
    IF out.kind = "return"
    THEN Wrote([success |-> TRUE, action |-> "custom", result |-> out.value,
                name |-> Device_name(d)])
    ELSE IF Catches(out.exc)
         THEN Wrote([success |-> FALSE, action |-> "custom", error |-> Str(out.exc),
                     name |-> Device_name(d)])
         ELSE Propagated

\* the operation name the units of work of act write in the action field
ActionName(act) ==
    CASE act.cls = "SwitchAction" -> IF act.turn_on THEN "on" ELSE "off"
      [] act.cls = "RefreshAction" -> "refresh"
      [] act.cls = "LevelAction" -> "setLevel"
      [] act.cls = "CustomAction" -> "custom"

\* the outcomes the operation awaited by a unit of work of act on d may have
OpOutcomes(act, d) ==
    CASE act.cls = "SwitchAction" ->
           IF act.turn_on THEN {Device_turn_on(d, st) : st \in StOutcomes}
                          ELSE {Device_turn_off(d, st) : st \in StOutcomes}
      [] act.cls = "RefreshAction" -> {Device_refresh(d, st) : st \in StOutcomes}
      [] act.cls = "LevelAction" -> {Device_set_level(d, act.level, st) : st \in StOutcomes}
      [] OTHER -> CustomOutcomes

\* the rest of the unit of work of act on d once its operation ended with out
UnitEndNoHandler(act, d, out) ==
    IF out.kind # "return" THEN Propagated
    ELSE CASE act.cls = "SwitchAction" ->
                IF act.turn_on THEN SwitchAction_turn_on_device(d, out)
                               ELSE SwitchAction_turn_off_device(d, out)
           [] act.cls = "RefreshAction" -> RefreshAction_refresh_device(d, out)
           [] act.cls = "LevelAction" -> LevelAction_set_level(act.level, d, out)
           [] OTHER -> CustomAction_execute_action(d, out)
UnitEnd(act, d, out) ==
    CASE act.cls = "SwitchAction" ->
           IF act.turn_on THEN SwitchAction_turn_on_device(d, out)
                          ELSE SwitchAction_turn_off_device(d, out)
      [] act.cls = "RefreshAction" -> RefreshAction_refresh_device(d, out)
      [] act.cls = "LevelAction" -> LevelAction_set_level(act.level, d, out)
      [] OTHER -> CustomAction_execute_action(d, out)

\* the capability an action requires of a device ("" when it requires none)
RequiredCapability(act) ==
    CASE act.cls = "SwitchAction" -> "switch"
      [] act.cls = "LevelAction" -> "switchLevel"
      [] OTHER -> ""

Gated(act) == act.cls \in {"SwitchAction", "LevelAction"}

\* the devices that get a unit of work, in the order of the devices argument
EveryDevice(act, devs) == devs
Eligible(act, devs) ==
    IF Gated(act)
    THEN SelectSeq(devs, LAMBDA d : Device_has_capability(d, RequiredCapability(act)))
    ELSE devs

\* "self.results = {}" at the start of execute
KeepResults(old) == old
ResetResults(old) == EmptyDict

\* asyncio.gather(*tasks) without return_exceptions: done once every child is
\* done, or as soon as one child raised (the exception goes to the awaiter)
GatherDoneOnFirst(ts) == \E i \in 1..Len(ts) : ts[i].st \in {"done", "raised"}
GatherDone(ts) ==
    \/ \E i \in 1..Len(ts) : ts[i].st = "raised"
    \/ \A i \in 1..Len(ts) : ts[i].st = "done"
GatherRaised(ts) == \E i \in 1..Len(ts) : ts[i].st = "raised"

SkipRecordCopied(d, capability) ==
    [success |-> FALSE, skipped |-> TRUE,
     error |-> "Device does not have switch capability", name |-> Device_name(d)]
SkipRecordSuccess(d, capability) ==
    [success |-> TRUE, skipped |-> TRUE,
     error |-> "Device does not have " \o capability \o " capability", name |-> Device_name(d)]
SkipRecordNoError(d, capability) ==
    [success |-> FALSE, skipped |-> TRUE, name |-> Device_name(d)]
SkipRecord(d, capability) ==
    CASE capability = "switch" ->
           [success |-> FALSE, skipped |-> TRUE,
            error |-> "Device does not have switch capability", name |-> Device_name(d)]
      [] capability = "switchLevel" ->
           [success |-> FALSE, skipped |-> TRUE,
            error |-> "Device does not have switchLevel capability", name |-> Device_name(d)]

\* "if device.device_id not in self.results"
AlwaysAbsent(t, id) == TRUE
Absent(t, id) == id \notin DOMAIN t

\* the skip loop over devices; tw.t is the table, tw.w counts the writes per key
RECURSIVE SkipBackfill(_, _, _)
SkipBackfill(tw, devs, capability) ==
    IF devs = << >> THEN tw
    ELSE LET d  == Head(devs)
             id == Device_device_id(d)
         IN  IF Absent(tw.t, id)
             THEN SkipBackfill([t |-> Put(tw.t, id, SkipRecord(d, capability)),
                                w |-> [tw.w EXCEPT ![id] = @ + 1]],
                               Tail(devs), capability)
             ELSE SkipBackfill(tw, Tail(devs), capability)

\* execute from the completion of gather to its return
NoBackfill(act, tw, devs) == tw
AfterGather(act, tw, devs) ==
    IF Gated(act) THEN SkipBackfill(tw, devs, RequiredCapability(act)) ELSE tw

(***************************************************************************)
(* Read-only views: get_results, get_success_rate, print_results.          *)
(***************************************************************************)
BatchAction_get_results(t) == t

\* get_success_rate: 0.0 for an empty table, else (success_count / len) * 100,
\* kept as the fraction num / den
SuccessRateOfAttempted(t) ==
    IF DOMAIN t = {}
    THEN [num |-> 0, den |-> 1]
    ELSE LET n == Cardinality({k \in DOMAIN t : ~Get(t[k], "skipped", FALSE)})
         IN  IF n = 0 THEN [num |-> 0, den |-> 1]
             ELSE [num |-> Cardinality({k \in DOMAIN t : Get(t[k], "success", FALSE)}) * 100,
                   den |-> n]
BatchAction_get_success_rate(t) ==
    IF DOMAIN t = {}
    THEN [num |-> 0, den |-> 1]
    ELSE [num |-> Cardinality({k \in DOMAIN t : Get(t[k], "success", FALSE)}) * 100,
          den |-> Cardinality(DOMAIN t)]

success_count(t) == Cardinality({k \in DOMAIN t : Get(t[k], "success", FALSE)})
skip_count(t) == Cardinality({k \in DOMAIN t : Get(t[k], "skipped", FALSE)})
error_count(t) == Cardinality(DOMAIN t) - success_count(t) - skip_count(t)

\* the counts print_results prints, and the keys it lists under "Errors:"
BatchActionRunner_print_results(t) ==
    [total |-> Cardinality(DOMAIN t),
     successful |-> success_count(t),
     skipped |-> skip_count(t),
     errors |-> error_count(t),
     listed |-> IF error_count(t) > 0
                THEN {k \in DOMAIN t : ~Get(t[k], "success", FALSE) /\ ~Get(t[k], "skipped", FALSE)}
                ELSE {}]

NoRead == [op |-> "none"]
NoCall == [op |-> "none"]
NoOutcome == [kind |-> "none"]

(***************************************************************************)
(* The state machine.                                                      *)
(***************************************************************************)
SeqsUpTo(S, n) == UNION {[1..k -> S] : k \in 0..n}

Zero == [d \in Devices |-> 0]

Init ==
    /\ action \in Actions
    /\ results = EmptyDict
    /\ phase = "Idle"
    /\ devices = << >>
    /\ tasks = << >>
    /\ stale = FALSE
    /\ invoked = Zero
    /\ writes = Zero
    /\ stamp = << >>
    /\ own = [d \in Devices |-> NoOutcome]
    /\ observed = NoRead
    /\ call = NoCall
    /\ ret = NoCall
    /\ OthersUnused

\* the stamps after a step that took the table from t (stamped s) to tw.t,
\* having written the keys whose count in tw.w exceeds that in w
Restamp(s, w, tw) ==
    [k \in DOMAIN tw.t |-> IF k \in DOMAIN s /\ tw.w[k] = w[k] THEN s[k] ELSE "this"]

\* execute, from its call to its suspension at "await asyncio.gather(*tasks)";
\* gather of no awaitable is done at once and the await does not suspend
ExecuteStart(devs) ==
    /\ phase \in {"Idle", "Reported"}
    /\ LET sel  == Eligible(action, devs)
           ts   == [i \in 1..Len(sel) |-> [device |-> sel[i], st |-> "created"]]
           t0   == ResetResults(results)
           s0   == [k \in DOMAIN t0 |-> "earlier"]
       IN  /\ stale' = (DOMAIN results \ {Device_device_id(devs[i]) : i \in 1..Len(devs)} # {})
           /\ devices' = devs
           /\ tasks' = ts
           /\ invoked' = Zero
           /\ own' = [d \in Devices |-> NoOutcome]
           /\ observed' = NoRead
           /\ IF GatherDone(ts)
              THEN LET tw == AfterGather(action, [t |-> t0, w |-> Zero], devs)
                   IN  /\ results' = tw.t
                       /\ writes' = tw.w
                       /\ stamp' = Restamp(s0, Zero, tw)
                       /\ phase' = "Reported"
              ELSE /\ results' = t0
                   /\ writes' = Zero
                   /\ stamp' = s0
                   /\ phase' = "Executing"
    /\ UNCHANGED <<action, call, ret, ovars>>

UnitStartWritesFirst(i) ==
    /\ phase \in {"Executing", "Failed"}
    /\ i \in 1..Len(tasks)
    /\ tasks[i].st = "created"
    /\ \A j \in 1..(i - 1) : tasks[j].st # "created"
    /\ tasks' = [tasks EXCEPT ![i].st = "awaiting"]
    /\ invoked' = [invoked EXCEPT ![tasks[i].device] = @ + 1]
    /\ results' = Put(results, Device_device_id(tasks[i].device),
                      [success |-> TRUE, action |-> ActionName(action),
                       name |-> Device_name(tasks[i].device)])
    /\ writes' = [writes EXCEPT ![Device_device_id(tasks[i].device)] = @ + 1]
    /\ stamp' = Put(stamp, Device_device_id(tasks[i].device), "this")
    /\ observed' = NoRead
    /\ UNCHANGED <<action, phase, devices, stale, own, call, ret, ovars>>

\* a unit of work, from its first run to its suspension in the device call;
\* the event loop first runs the tasks of one gather in the order of creation
UnitStart(i) ==
    /\ phase \in {"Executing", "Failed"}
    /\ i \in 1..Len(tasks)
    /\ tasks[i].st = "created"
    /\ \A j \in 1..(i - 1) : tasks[j].st # "created"
    /\ tasks' = [tasks EXCEPT ![i].st = "awaiting"]
    /\ invoked' = [invoked EXCEPT ![tasks[i].device] = @ + 1]
    /\ observed' = NoRead
    /\ UNCHANGED <<action, results, phase, devices, stale, writes, stamp, own, call, ret, ovars>>

\* a unit of work, from the end of its device call (with outcome out) to its end
UnitResume(i, out) ==
    /\ phase \in {"Executing", "Failed"}
    /\ i \in 1..Len(tasks)
    /\ tasks[i].st = "awaiting"
    /\ LET d   == tasks[i].device
           id  == Device_device_id(d)
           fin == UnitEnd(action, d, out)
       IN  /\ out \in OpOutcomes(action, d)
           /\ tasks' = [tasks EXCEPT ![i].st = fin.st]
           /\ own' = [own EXCEPT ![d] = out]
           /\ IF fin.st = "done"
              THEN /\ results' = Put(results, id, fin.rec)
                   /\ writes' = [writes EXCEPT ![id] = @ + 1]
                   /\ stamp' = Put(stamp, id, "this")
              ELSE UNCHANGED <<results, writes, stamp>>
    /\ observed' = NoRead
    /\ UNCHANGED <<action, phase, devices, stale, invoked, call, ret, ovars>>

\* execute, from the completion of gather to its return (or its raise)
ExecuteResume ==
    /\ phase = "Executing"
    /\ GatherDone(tasks)
    /\ IF GatherRaised(tasks)
       THEN /\ phase' = "Failed"
            /\ UNCHANGED <<results, writes, stamp>>
       ELSE LET tw == AfterGather(action, [t |-> results, w |-> writes], devices)
            IN  /\ results' = tw.t
                /\ writes' = tw.w
                /\ stamp' = Restamp(stamp, writes, tw)
                /\ phase' = "Reported"
    /\ observed' = NoRead
    /\ UNCHANGED <<action, devices, tasks, stale, invoked, own, call, ret, ovars>>

\* a step of a reader: it calls get_results, get_success_rate and
\* print_results one after the other, none of which suspends
Reader ==
    /\ observed' = [op |-> "read", phase |-> phase, stamp |-> stamp,
                    get_results |-> BatchAction_get_results(results),
                    get_success_rate |-> BatchAction_get_success_rate(results),
                    print_results |->
                        BatchActionRunner_print_results(BatchAction_get_results(results))]
    /\ UNCHANGED <<action, results, phase, devices, tasks, stale, invoked, writes, stamp, own, call, ret, ovars>>

Next ==
    \/ \E devs \in SeqsUpTo(Devices, MaxLen) : ExecuteStart(devs)
    \/ \E i \in DOMAIN tasks : UnitStart(i)
    \/ \E i \in DOMAIN tasks : \E out \in OpOutcomes(action, tasks[i].device) : UnitResume(i, out)
    \/ ExecuteResume
    \/ Reader

Spec == Init /\ [][Next]_vars

\* the event loop runs every ready coroutine, and every device call that was
\* started completes
FairSpec ==
    /\ Spec
    /\ WF_vars(\E i \in DOMAIN tasks : UnitStart(i))
    /\ WF_vars(\E i \in DOMAIN tasks : \E out \in OpOutcomes(action, tasks[i].device) : UnitResume(i, out))
    /\ WF_vars(ExecuteResume)

(***************************************************************************)
(* Properties of the batch dispatcher.                                     *)
(***************************************************************************)
Ids(devs) == {Device_device_id(devs[i]) : i \in 1..Len(devs)}
Occurrences(devs, d) == Cardinality({i \in 1..Len(devs) : devs[i] = d})
HadUnit(d) == own[d].kind # "none"
Returned == phase = "Reported"
Lacks(d) == Gated(action) /\ ~Device_has_capability(d, RequiredCapability(action))
DoneIds == {Device_device_id(tasks[i].device) : i \in {j \in DOMAIN tasks : tasks[j].st = "done"}}

\* C1: a failing device operation is never propagated by execute (execute
\* never ends by raising), and when execute has returned the record of every
\* device that had a unit of work is decided by the outcome of its own
\* operation alone: success iff its own operation returned, else its own
\* failure message, whatever happened to the other devices.
C1_FailureIsolated ==
    /\ phase # "Failed"
    /\ \A i \in DOMAIN tasks : tasks[i].st # "raised"
    /\ Returned =>
         \A d \in Ids(devices) :
            HadUnit(d) =>
              /\ results[d].success = (own[d].kind = "return")
              /\ own[d].kind = "raise" => results[d].error = own[d].exc.msg
              /\ own[d].kind = "return" => "error" \notin DOMAIN results[d]

C1_Witness ==
    /\ Returned
    /\ \E a, b \in Ids(devices) :
         /\ a # b
         /\ own[a].kind = "raise" /\ ~results[a].success
         /\ own[b].kind = "return" /\ results[b].success

\* C2: when execute has returned, the keys of the Result Table are exactly
\* the device_ids of the devices argument (none for an empty argument).
C2_TableCoversDevices == Returned => DOMAIN results = Ids(devices)

C2_Witness ==
    /\ Returned
    /\ \E a, b \in Ids(devices) : Lacks(a) /\ HadUnit(b)
    /\ DOMAIN results = Ids(devices)

\* C3 as stated: after execute the operation was invoked exactly once on each
\* device of the argument that has the required capability and never on one
\* that lacks it.
C3_OncePerDevice ==
    Returned =>
      \A d \in Devices :
         invoked[d] = IF d \in Ids(devices) /\ ~Lacks(d) THEN 1 ELSE 0

\* C3 amended: the operation is invoked once for each occurrence of a capable
\* device in the devices argument (exactly once when the argument does not
\* repeat it, and not again after a failure), never on a device that lacks
\* the capability, and never more often than that while execute runs.
C3_OncePerOccurrence ==
    /\ \A d \in Devices :
         invoked[d] <= IF Lacks(d) THEN 0 ELSE Occurrences(devices, d)
    /\ Returned =>
         \A d \in Devices :
            invoked[d] = IF Lacks(d) THEN 0 ELSE Occurrences(devices, d)

C3_Witness ==
    /\ Returned
    /\ \E a, b \in Ids(devices) :
         /\ Lacks(a) /\ invoked[a] = 0
         /\ own[b].kind = "raise" /\ invoked[b] = 1

\* C4: after execute of a capability-gated action a device's record has
\* skipped (present and true) iff the device lacks the required capability,
\* and that record is exactly success false, skipped true, the error text
\* naming the capability, and the device name; records of the other actions
\* never carry skipped.
C4_SkippedIffIncapable ==
    Returned =>
      \A d \in Ids(devices) :
         IF Gated(action)
         THEN /\ ("skipped" \in DOMAIN results[d]) <=> Lacks(d)
              /\ Get(results[d], "skipped", FALSE) <=> Lacks(d)
              /\ Lacks(d) =>
                   results[d] =
                     [success |-> FALSE, skipped |-> TRUE,
                      error |-> "Device does not have " \o RequiredCapability(action)
                                \o " capability",
                      name |-> Device_name(d)]
         ELSE "skipped" \notin DOMAIN results[d]

C4_Witness ==
    /\ Returned
    /\ action.cls = "LevelAction"
    /\ \E a, b \in Ids(devices) :
         /\ Lacks(a) /\ results[a].skipped
         /\ ~Lacks(b) /\ "skipped" \notin DOMAIN results[b]

\* C5: execute is past its join (returned or raised) only when every unit of
\* work it launched has ended with its record written; while a unit is
\* pending, execute stays suspended.
C5_JoinWaitsForAll ==
    phase # "Executing" => \A i \in DOMAIN tasks : tasks[i].st = "done"

C5_Witness ==
    /\ Returned
    /\ Len(tasks) >= 2
    /\ \E i \in DOMAIN tasks : own[tasks[i].device].kind = "raise"

\* C6: when every started device operation completes, an execute call that
\* is executing eventually has returned; the instance is only ever Idle,
\* Executing or Reported, and it leaves Executing only to Reported.
C6_RunsToCompletion ==
    /\ [](phase \in {"Idle", "Executing", "Reported"})
    /\ [][phase = "Executing" => phase' \in {"Executing", "Reported"}]_vars
    /\ (phase = "Executing") ~> (phase = "Reported")

C6_Witness ==
    /\ Returned
    /\ Len(tasks) = MaxLen
    /\ \E i \in DOMAIN tasks : own[tasks[i].device].kind = "raise"

\* C7: after an execute call that replaced an earlier table, get_results
\* holds records only for devices of this call, each written by this call.
C7_TableReplaced ==
    Returned =>
      LET t == BatchAction_get_results(results)
      IN  \A k \in DOMAIN t : k \in Ids(devices) /\ stamp[k] = "this"

C7_Witness ==
    /\ Returned
    /\ stale
    /\ results # EmptyDict

\* C8 as stated: a reader that calls get_results while execute is suspended
\* at the join sees the complete table of an earlier run or the complete
\* table of this run.
C8_ReaderSeesCompleteTable ==
    (observed.op = "read" /\ observed.phase = "Executing") =>
       \/ \A k \in DOMAIN observed.get_results : observed.stamp[k] = "earlier"
       \/ DOMAIN observed.get_results = Ids(devices)

\* C8 amended: execute empties the table when it starts and the units of
\* work fill it one record at a time; a reader during the join sees exactly
\* the records of the units finished so far in this call (possibly none),
\* none of an earlier run and no skip record, and get_success_rate is
\* computed from that partial table.
C8_ReaderSeesRecordsSoFar ==
    (observed.op = "read" /\ observed.phase = "Executing") =>
       /\ DOMAIN observed.get_results = DoneIds
       /\ \A k \in DOMAIN observed.get_results :
             /\ observed.stamp[k] = "this"
             /\ "skipped" \notin DOMAIN observed.get_results[k]
       /\ observed.get_success_rate.den = IF DoneIds = {} THEN 1 ELSE Cardinality(DoneIds)
       /\ observed.get_success_rate.num =
             100 * Cardinality({k \in DoneIds : observed.get_results[k].success})

C8_Witness ==
    /\ observed.op = "read"
    /\ observed.phase = "Executing"
    /\ observed.get_results # EmptyDict
    /\ DOMAIN observed.get_results # Ids(devices)
    /\ stale

\* C9 as stated: within one execute call every key is written exactly once
\* and the table has as many records as devices were passed, whatever the
\* devices sequence.
C9_OneWritePerKey ==
    Returned =>
      /\ \A d \in Ids(devices) : writes[d] = 1
      /\ Cardinality(DOMAIN results) = Len(devices)

\* C9 amended: a key is written once for each occurrence of its capable
\* device in the devices sequence and once by the skip backfill for a device
\* that lacks the capability, and the table has as many records as there are
\* distinct device_ids; so when no device_id occurs twice in devices, every
\* key is written exactly once and the table has as many records as devices.
C9_OneWritePerOccurrence ==
    Returned =>
      /\ \A d \in Devices :
           writes[d] = IF Lacks(d) THEN (IF d \in Ids(devices) THEN 1 ELSE 0)
                       ELSE Occurrences(devices, d)
      /\ Cardinality(DOMAIN results) = Cardinality(Ids(devices))
      /\ Cardinality(Ids(devices)) = Len(devices) =>
           /\ \A d \in Ids(devices) : writes[d] = 1
           /\ Cardinality(DOMAIN results) = Len(devices)

C9_Witness ==
    /\ Returned
    /\ Len(devices) = MaxLen
    /\ Cardinality(Ids(devices)) = Len(devices)
    /\ \E a, b \in Ids(devices) : Lacks(a) /\ ~Lacks(b) /\ writes[a] = 1 /\ writes[b] = 1

\* C10: in every table execute produced no record is both a success and a
\* skip, so every record is in exactly one of the classes success, skipped,
\* error; the counts print_results prints add up to the number of records,
\* and its error count is the number of records that are neither, never
\* negative.
C10_ThreeClasses ==
    Returned =>
      LET t  == BatchAction_get_results(results)
          pr == BatchActionRunner_print_results(t)
      IN  /\ \A k \in DOMAIN t : ~(Get(t[k], "success", FALSE) /\ Get(t[k], "skipped", FALSE))
          /\ pr.successful + pr.skipped + pr.errors = pr.total
          /\ pr.total = Cardinality(DOMAIN t)
          /\ pr.errors >= 0
          /\ pr.errors = Cardinality({k \in DOMAIN t :
                            ~Get(t[k], "success", FALSE) /\ ~Get(t[k], "skipped", FALSE)})
          /\ pr.listed = {k \in DOMAIN t :
                            ~Get(t[k], "success", FALSE) /\ ~Get(t[k], "skipped", FALSE)}

C10_Witness ==
    /\ Returned
    /\ observed.op = "read"
    /\ observed.print_results.successful = 1
    /\ observed.print_results.skipped = 1
    /\ observed.print_results.errors = 1

IsSkip(r) == Get(r, "skipped", FALSE)

\* C11 as stated: in every record of the table the error field is present
\* if and only if success is false and the record is not a skip record.
C11_ErrorIffFailedNotSkipped ==
    \A k \in DOMAIN results :
       ("error" \in DOMAIN results[k]) <=> (~results[k].success /\ ~IsSkip(results[k]))

\* C11 amended: in every record of the table the error field is present if
\* and only if success is false, skip records included: a skip record
\* carries the message that the device does not have the capability.
C11_ErrorIffNotSuccess ==
    \A k \in DOMAIN results :
       /\ ("error" \in DOMAIN results[k]) <=> ~results[k].success
       /\ IsSkip(results[k]) =>
            results[k].error = "Device does not have "
                                 \o RequiredCapability(action) \o " capability"

C11_Witness ==
    /\ Returned
    /\ \E a, b, c \in DOMAIN results :
          /\ IsSkip(results[a]) /\ "error" \in DOMAIN results[a]
          /\ ~results[b].success /\ ~IsSkip(results[b]) /\ "error" \in DOMAIN results[b]
          /\ results[c].success /\ "error" \notin DOMAIN results[c]

\* C12 as stated: every record of the table, whichever path wrote it,
\* carries the fields success, action (the operation name) and name.
C12_ThreeFieldsAlways ==
    \A k \in DOMAIN results :
       /\ {"success", "action", "name"} \subseteq DOMAIN results[k]
       /\ results[k].action = ActionName(action)

\* C12 amended: every record of the table carries success and name (the
\* display name of its device); a record written by a unit of work also
\* carries action, the operation name, and a skip record carries no action
\* field.
C12_ActionUnlessSkipped ==
    \A k \in DOMAIN results :
       /\ {"success", "name"} \subseteq DOMAIN results[k]
       /\ results[k].name = Device_name(k)
       /\ ("action" \in DOMAIN results[k]) <=> ~IsSkip(results[k])
       /\ ~IsSkip(results[k]) => results[k].action = ActionName(action)

C12_Witness ==
    /\ Returned
    /\ action.cls = "SwitchAction" /\ action.turn_on
    /\ \E a, b \in DOMAIN results :
          /\ IsSkip(results[a]) /\ "action" \notin DOMAIN results[a]
          /\ ~IsSkip(results[b]) /\ results[b].action = "on"


\* C13: the record a unit of work writes has success true exactly when the
\* device operation returned without failure; its action field is the
\* operation name of the action ("on", "off", "setLevel", "refresh",
\* "custom"); a LevelAction record carries the requested level on success
\* and on failure; a CustomAction success record carries the value the
\* callable returned as result; a failure record carries the text of the
\* failure as error.
C13_UnitRecord ==
    \A d \in Devices :
       HadUnit(d) =>
         LET r == results[Device_device_id(d)]
         IN  /\ ~IsSkip(r)
             /\ r.success = (own[d].kind = "return")
             /\ r.action = ActionName(action)
             /\ r.name = Device_name(d)
             /\ action.cls = "LevelAction" =>
                  "level" \in DOMAIN r /\ r.level = action.level
             /\ (action.cls = "CustomAction" /\ own[d].kind = "return") =>
                  "result" \in DOMAIN r /\ r.result = own[d].value
             /\ own[d].kind = "raise" =>
                  "error" \in DOMAIN r /\ r.error = own[d].exc.msg
             /\ own[d].kind = "return" => "error" \notin DOMAIN r

C13_Witness ==
    /\ Returned
    /\ action.cls = "LevelAction"
    /\ \E a, b \in Ids(devices) :
          /\ own[a].kind = "raise" /\ results[a].level = action.level
          /\ results[a].error = "timeout" /\ ~results[a].success
          /\ own[b].kind = "return" /\ results[b].level = action.level
          /\ results[b].success


\* C14: the skip backfill, which runs when the parallel phase of execute is
\* over, writes a record only under a device_id that has no record then:
\* every record the units of work wrote is in the table unchanged
\* afterwards, no key of theirs is written again, and every key the backfill
\* adds is the device_id of a device of the call and holds a skip record.
C14_BackfillKeepsUnitRecords ==
    [][(phase = "Executing" /\ phase' = "Reported") =>
         /\ \A k \in DOMAIN results :
               /\ k \in DOMAIN results'
               /\ results'[k] = results[k]
               /\ writes'[k] = writes[k]
         /\ \A k \in DOMAIN results' \ DOMAIN results :
               /\ k \in Ids(devices)
               /\ IsSkip(results'[k])
               /\ writes'[k] = 1]_vars

C14_Witness ==
    /\ Returned
    /\ Gated(action)
    /\ \E a, b \in Ids(devices) :
          /\ HadUnit(a) /\ ~IsSkip(results[a]) /\ writes[a] >= 1
          /\ ~HadUnit(b) /\ IsSkip(results[b]) /\ writes[b] = 1


\* C15: a unit of work writes the record of its device only once the device
\* operation has returned or failed, never before the operation or while it
\* is pending: while execute runs, each key has been written once per
\* finished unit of work of its device and has a record only if one has
\* finished. A skip record is in the table only when every unit of work of
\* the call has finished and execute has passed its join.
UnitsDone(d) ==
    Cardinality({i \in DOMAIN tasks : tasks[i].device = d /\ tasks[i].st = "done"})
C15_RecordAfterOperation ==
    /\ \A d \in Devices :
          phase \in {"Executing", "Failed"} =>
            /\ writes[Device_device_id(d)] = UnitsDone(d)
            /\ Device_device_id(d) \in DOMAIN results <=> UnitsDone(d) > 0
    /\ (\E k \in DOMAIN results : IsSkip(results[k])) =>
          /\ Returned
          /\ \A i \in DOMAIN tasks : tasks[i].st = "done"

C15_Witness ==
    /\ phase = "Executing"
    /\ \E i, j \in DOMAIN tasks :
          /\ tasks[i].st = "done" /\ tasks[i].device \in DOMAIN results
          /\ tasks[j].st = "awaiting" /\ tasks[j].device \notin DOMAIN results
    /\ \E k \in 1..Len(devices) : Lacks(devices[k]) /\ devices[k] \notin DOMAIN results


\* C16: get_success_rate is the number of records with success true, divided
\* by the number of all records of the table (the skipped ones included),
\* times 100, and 0 for an empty table: one success, one skip and one error
\* give 100 * 1/3; the rate is 100 only if every record is a success.
C16_SuccessRate ==
    observed.op = "read" =>
      LET rate == observed.get_success_rate
          n    == Cardinality(DOMAIN results)
          ok   == {k \in DOMAIN results : results[k].success}
          skp  == {k \in DOMAIN results : IsSkip(results[k])}
          err  == (DOMAIN results \ ok) \ skp
      IN  /\ rate.den > 0
          /\ n = 0 => rate.num = 0
          /\ n > 0 => rate.num * n = 100 * Cardinality(ok) * rate.den
          /\ n = Cardinality(ok) + Cardinality(skp) + Cardinality(err)
          /\ (n > 0 /\ rate.num = 100 * rate.den) => ok = DOMAIN results
          /\ (Cardinality(ok) = 1 /\ Cardinality(skp) = 1 /\ Cardinality(err) = 1) =>
                rate.num * 3 = 100 * rate.den

C16_Witness ==
    /\ Returned
    /\ observed.op = "read"
    /\ observed.get_success_rate = [num |-> 100, den |-> 3]
    /\ \E a, b, c \in DOMAIN results :
          /\ results[a].success
          /\ IsSkip(results[b])
          /\ ~results[c].success /\ ~IsSkip(results[c])


(***************************************************************************)
(* Construction of actions: LevelAction(level) and the batch CLI's         *)
(* create_action(args).  A step is one call, kept in call with what it     *)
(* returned or raised in ret; the dispatcher stays idle.                   *)
(***************************************************************************)
dvars == <<action, results, phase, devices, tasks, stale, invoked, writes, stamp, own, observed>>

NoAction == [cls |-> "None"]
DispatcherIdle ==
    /\ action = NoAction
    /\ results = EmptyDict
    /\ phase = "Idle"
    /\ devices = << >>
    /\ tasks = << >>
    /\ stale = FALSE
    /\ invoked = Zero
    /\ writes = Zero
    /\ stamp = << >>
    /\ own = [d \in Devices |-> NoOutcome]
    /\ observed = NoRead

\* the built-in min and max of two integers
Min(a, b) == IF a < b THEN a ELSE b
Max(a, b) == IF a > b THEN a ELSE b

\* an optional value: None or a value
None == << >>
Some(v) == <<v>>

SwitchAction_init(turn_on) == Return([cls |-> "SwitchAction", turn_on |-> turn_on])
RefreshAction_init == Return([cls |-> "RefreshAction"])

\* LevelAction.__init__: "if not (0 <= level <= 100): raise ValueError(...)"
LevelAction_init(level) ==
    IF ~(0 <= level /\ level <= 100)
    THEN Raise("ValueError", "Level must be between 0 and 100")
    ELSE Return([cls |-> "LevelAction", level |-> level])

\* create_action of batch_action_cli.py
create_action(args) ==
    IF args.turn_on THEN SwitchAction_init(TRUE)
    ELSE IF args.turn_off THEN SwitchAction_init(FALSE)
    ELSE IF args.set_level # None
         THEN LET level == Max(0, Min(100, args.set_level[1]))
              IN  LevelAction_init(level)
    ELSE IF args.refresh THEN RefreshAction_init
    ELSE Return(None)

\* the levels a caller may ask for
RequestedLevels == (0 - MaxExcess)..(100 + MaxExcess)

\* the namespaces argparse hands to create_action: exactly one option of the
\* required, mutually exclusive group of actions is set
CliArgs ==
    {[turn_on |-> TRUE, turn_off |-> FALSE, set_level |-> None, refresh |-> FALSE],
     [turn_on |-> FALSE, turn_off |-> TRUE, set_level |-> None, refresh |-> FALSE],
     [turn_on |-> FALSE, turn_off |-> FALSE, set_level |-> None, refresh |-> TRUE]}
    \cup {[turn_on |-> FALSE, turn_off |-> FALSE, set_level |-> Some(l), refresh |-> FALSE] :
            l \in RequestedLevels}

BuildInit ==
    /\ DispatcherIdle
    /\ OthersUnused
    /\ call = NoCall
    /\ ret = NoCall

NewLevelAction(level) ==
    /\ call' = [op |-> "LevelAction", level |-> level]
    /\ ret' = LevelAction_init(level)
    /\ UNCHANGED <<dvars, ovars>>

CreateAction(args) ==
    /\ call' = [op |-> "create_action", args |-> args]
    /\ ret' = create_action(args)
    /\ UNCHANGED <<dvars, ovars>>

BuildNext ==
    \/ \E level \in RequestedLevels : NewLevelAction(level)
    \/ \E args \in CliArgs : CreateAction(args)

BuildSpec == BuildInit /\ [][BuildNext]_vars

\* the level the caller of the last call asked for, if it asked for one
Requested ==
    CASE call.op = "LevelAction" -> Some(call.level)
      [] call.op = "create_action" -> call.args.set_level
      [] OTHER -> None

\* C17 as stated: on every path that builds a LevelAction, LevelAction(...)
\* itself and create_action of the batch CLI, a requested level outside
\* 0..100 is rejected (the call raises and no action is built); it is never
\* clamped or replaced by a valid level.
C17_OutOfRangeRejected ==
    (Requested # None /\ (Requested[1] < 0 \/ Requested[1] > 100)) =>
       /\ ret.kind = "raise"
       /\ ret.exc.cls = "ValueError"

(***************************************************************************)
(* Device predicates (filters.py).  matches returns a truth value; the     *)
(* model keeps with it the leaf predicates it evaluated, in the order of   *)
(* their evaluation.                                                       *)
(***************************************************************************)
\* Device._health_state ("" for None) and the components of the device object
health_state(d) ==
    CASE d = "d1" -> "ONLINE"
      [] d = "d2" -> "OFFLINE"
      [] OTHER    -> ""
st_components(d) == IF d \in {"d2", "d4"} THEN {} ELSE {"main"}

Device_is_online(d) ==
    IF health_state(d) # "" THEN health_state(d) = "ONLINE"
    ELSE IF st_components(d) # {} THEN TRUE
    ELSE FALSE

\* the devices the predicates are evaluated on
FilterDevices == Devices \cup {"d4", "d5"}

\* a Python str as the sequence of its characters, for the strings in use
Chars(s) ==
    CASE s = "Lamp" -> <<"L", "a", "m", "p">>
      [] s = "Dimmer" -> <<"D", "i", "m", "m", "e", "r">>
      [] s = "Sensor" -> <<"S", "e", "n", "s", "o", "r">>
      [] s = "Plug" -> <<"P", "l", "u", "g">>
      [] s = "Den" -> <<"D", "e", "n">>
      [] s = "Room ID: " -> <<"R", "o", "o", "m", " ", "I", "D", ":", " ">>
      [] s = "r2" -> <<"r", "2">>
      [] s = "LAN" -> <<"L", "A", "N">>
      [] s = "ZIGBEE" -> <<"Z", "I", "G", "B", "E", "E">>
      [] s = "" -> << >>

\* str.lower
LowerChar(c) ==
    CASE c = "A" -> "a" [] c = "B" -> "b" [] c = "D" -> "d" [] c = "E" -> "e"
      [] c = "G" -> "g" [] c = "I" -> "i" [] c = "L" -> "l" [] c = "N" -> "n"
      [] c = "P" -> "p" [] c = "R" -> "r" [] c = "S" -> "s" [] c = "Z" -> "z"
      [] OTHER -> c
StrLower(cs) == [i \in 1..Len(cs) |-> LowerChar(cs[i])]

\* "p in s" and s.startswith(p) on strings
StartsWith(cs, p) == Len(p) <= Len(cs) /\ SubSeq(cs, 1, Len(p)) = p
Contains(p, cs) ==
    \E i \in 0..(Len(cs) - Len(p)) : SubSeq(cs, i + 1, i + Len(p)) = p

\* Device.name: self._st_device.label
Device_name_read(d) ==
    IF "label" \in st_attrs(d) THEN Return(Chars(st_label(d)))
    ELSE Raise("AttributeError", "label")

\* Device._room_name, set by the controller, and room_id of the device object
room_name(d) == IF d = "d1" THEN Some(Chars("Den")) ELSE None
st_room_id(d) == IF d = "d2" THEN "r2" ELSE ""

\* Device.room
Device_room(d) ==
    IF room_name(d) # None THEN room_name(d)
    ELSE IF "room_id" \in st_attrs(d) /\ st_room_id(d) # ""
         THEN Some(Chars("Room ID: ") \o Chars(st_room_id(d)))
    ELSE None

st_type(d) == IF d \in {"d1", "d5"} THEN "LAN" ELSE "ZIGBEE"

\* status.battery of the device object
st_status_battery(d) ==
    CASE d = "d2" -> Some(15)
      [] d = "d3" -> Some(20)
      [] d = "d5" -> Some(15)
      [] OTHER -> None

\* Device.battery_level
Device_battery_level(d) ==
    IF Device_has_capability(d, "battery")
    THEN IF "status" \in st_attrs(d) THEN st_status_battery(d) ELSE None
    ELSE None

\* the constructors
StatusFilter(is_online) == [cls |-> "StatusFilter", is_online |-> is_online]
CapabilityFilter(capability) == [cls |-> "CapabilityFilter", capability |-> capability]
RoomFilter(name, case_sensitive) ==
    [cls |-> "RoomFilter", room_name |-> IF case_sensitive THEN name ELSE StrLower(name),
     case_sensitive |-> case_sensitive]
NameFilter(name_pattern, mode, case_sensitive) ==
    [cls |-> "NameFilter",
     pattern |-> IF case_sensitive THEN name_pattern ELSE StrLower(name_pattern),
     mode |-> mode, case_sensitive |-> case_sensitive]
BatteryLevelFilter(level, operator) ==
    [cls |-> "BatteryLevelFilter", level |-> level, operator |-> operator]
TypeFilter(device_type, case_sensitive) ==
    [cls |-> "TypeFilter",
     device_type |-> IF case_sensitive THEN device_type ELSE StrLower(device_type),
     case_sensitive |-> case_sensitive]
AndFilter(filter1, filter2) == [cls |-> "AndFilter", filter1 |-> filter1, filter2 |-> filter2]
OrFilter(filter1, filter2) == [cls |-> "OrFilter", filter1 |-> filter1, filter2 |-> filter2]
NotFilter(filter_to_negate) == [cls |-> "NotFilter", filter_to_negate |-> filter_to_negate]

\* the operators &, | and ~ of DeviceFilter
DeviceFilter_and(self, other) == AndFilter(self, other)
DeviceFilter_or(self, other) == OrFilter(self, other)
DeviceFilter_invert(self) == NotFilter(self)

\* what matches returns: its value, and the leaf predicates evaluated
Result(v, evaluated) == [kind |-> "return", value |-> v, evaluated |-> evaluated]

\* "try: ... except Exception: return False" of the leaf predicates
ExceptNotCaught(out, f) == out
ExceptReturnsFalse(out, f) ==
    IF out.kind = "raise" THEN Result(FALSE, <<f>>) ELSE out

\* Device.is_online has its own handler and does not raise
StatusFilter_matches(f, d) ==
    ExceptReturnsFalse(Result(Device_is_online(d) = f.is_online, <<f>>), f)

RoomFilter_matches(f, d) ==
    ExceptReturnsFalse(
        LET room == Device_room(d)
        IN  IF room = None \/ room = Some(<< >>) THEN Result(FALSE, <<f>>)
            ELSE LET r       == IF f.case_sensitive THEN room[1] ELSE StrLower(room[1])
                     pattern == IF f.case_sensitive THEN f.room_name
                                ELSE StrLower(f.room_name)
                 IN  Result(pattern = r \/ Contains(pattern, r), <<f>>),
        f)

NameFilter_matches(f, d) ==
    ExceptReturnsFalse(
        LET read == Device_name_read(d)
        IN  IF read.kind = "raise" THEN read
            ELSE LET name == IF f.case_sensitive THEN read.value ELSE StrLower(read.value)
                 IN  IF f.mode = "exact" THEN Result(name = f.pattern, <<f>>)
                     ELSE IF f.mode = "contains" THEN Result(Contains(f.pattern, name), <<f>>)
                     ELSE IF f.mode = "startswith"
                          THEN Result(StartsWith(name, f.pattern), <<f>>)
                     ELSE Result(FALSE, <<f>>),
        f)

\* getattr(device, "battery_level", None), then status.battery of _st_device
BatteryReading(d) ==
    IF Device_battery_level(d) # None THEN Device_battery_level(d)
    ELSE IF "status" \in st_attrs(d) THEN st_status_battery(d)
    ELSE None

BatteryLevelFilter_matches(f, d) ==
    ExceptReturnsFalse(
        LET battery_level == BatteryReading(d)
        IN  IF battery_level = None THEN Result(FALSE, <<f>>)
            ELSE IF f.operator = "<=" THEN Result(battery_level[1] <= f.level, <<f>>)
            ELSE IF f.operator = "<" THEN Result(battery_level[1] < f.level, <<f>>)
            ELSE IF f.operator = ">=" THEN Result(battery_level[1] >= f.level, <<f>>)
            ELSE IF f.operator = ">" THEN Result(battery_level[1] > f.level, <<f>>)
            ELSE IF f.operator = "==" THEN Result(battery_level[1] = f.level, <<f>>)
            ELSE Result(FALSE, <<f>>),
        f)

\* a Device has no attribute "capabilities"; its _st_device may have; a
\* Device always has turn_on, turn_off and battery_level
CapabilityFilterInfersFirst(f, d) ==
    IF f.capability \in {"switch", "battery"} THEN Result(TRUE, <<f>>)
    ELSE Result("capabilities" \in st_attrs(d) /\ f.capability \in st_capabilities(d), <<f>>)
CapabilityFilter_matches(f, d) ==
    ExceptReturnsFalse(
        IF "capabilities" \in st_attrs(d)
        THEN Result(f.capability \in st_capabilities(d), <<f>>)
        ELSE IF f.capability = "switch" THEN Result(TRUE, <<f>>)
        ELSE IF f.capability = "battery" THEN Result(TRUE, <<f>>)
        ELSE Result(FALSE, <<f>>),
        f)

\* a Device has no attribute "type"; its _st_device may have; else the name
\* is searched, getattr(device, "name", "") being "" when the read fails
TypeFilter_matches(f, d) ==
    ExceptReturnsFalse(
        IF "type" \in st_attrs(d)
        THEN LET device_type == IF f.case_sensitive THEN Chars(st_type(d))
                                ELSE StrLower(Chars(st_type(d)))
             IN  Result(device_type = f.device_type, <<f>>)
        ELSE LET read == Device_name_read(d)
                 name == IF read.kind = "raise" THEN << >> ELSE StrLower(read.value)
             IN  Result(Contains(f.device_type, StrLower(name)), <<f>>),
        f)

RECURSIVE DeviceFilter_matches(_, _)

\* "return self.filter1.matches(device) and self.filter2.matches(device)"
AndFilterEager(f, d) ==
    LET a == DeviceFilter_matches(f.filter1, d)
        b == DeviceFilter_matches(f.filter2, d)
    IN  Result(a.value /\ b.value, a.evaluated \o b.evaluated)
AndFilter_matches(f, d) ==
    LET a == DeviceFilter_matches(f.filter1, d)
    IN  IF a.kind = "raise" THEN a
        ELSE IF ~a.value THEN Result(a.value, a.evaluated)
        ELSE LET b == DeviceFilter_matches(f.filter2, d)
             IN  IF b.kind = "raise" THEN b
                 ELSE Result(b.value, a.evaluated \o b.evaluated)

\* "return self.filter1.matches(device) or self.filter2.matches(device)"
OrFilter_matches(f, d) ==
    LET a == DeviceFilter_matches(f.filter1, d)
    IN  IF a.kind = "raise" THEN a
        ELSE IF a.value THEN Result(a.value, a.evaluated)
        ELSE LET b == DeviceFilter_matches(f.filter2, d)
             IN  IF b.kind = "raise" THEN b
                 ELSE Result(b.value, a.evaluated \o b.evaluated)

\* "return not self.filter_to_negate.matches(device)"
NotFilter_matches(f, d) ==
    LET a == DeviceFilter_matches(f.filter_to_negate, d)
    IN  IF a.kind = "raise" THEN a ELSE Result(~a.value, a.evaluated)

\* f.matches(d), by the class of f
DeviceFilter_matches(f, d) ==
    CASE f.cls = "StatusFilter" -> StatusFilter_matches(f, d)
      [] f.cls = "RoomFilter" -> RoomFilter_matches(f, d)
      [] f.cls = "NameFilter" -> NameFilter_matches(f, d)
      [] f.cls = "BatteryLevelFilter" -> BatteryLevelFilter_matches(f, d)
      [] f.cls = "CapabilityFilter" -> CapabilityFilter_matches(f, d)
      [] f.cls = "TypeFilter" -> TypeFilter_matches(f, d)
      [] f.cls = "AndFilter" -> AndFilter_matches(f, d)
      [] f.cls = "OrFilter" -> OrFilter_matches(f, d)
      [] f.cls = "NotFilter" -> NotFilter_matches(f, d)

\* str.lower on the operator strings in use
Lower(s) ==
    CASE s = "AND" -> "and"
      [] s = "OR" -> "or"
      [] OTHER -> s

\* FilterGroup.__init__: "self.filters = filters or []",
\* "self.operator = operator.lower()"
FilterGroup_init(filters, operator) ==
    Return([cls |-> "FilterGroup", filters |-> filters, operator |-> Lower(operator)])

\* all(f.matches(device) for f in self.filters)
RECURSIVE AllOf(_, _)
AllOf(fs, d) ==
    IF fs = << >> THEN Result(TRUE, << >>)
    ELSE LET h == DeviceFilter_matches(Head(fs), d)
         IN  IF h.kind = "raise" THEN h
             ELSE IF ~h.value THEN Result(FALSE, h.evaluated)
             ELSE LET r == AllOf(Tail(fs), d)
                  IN  IF r.kind = "raise" THEN r
                      ELSE Result(r.value, h.evaluated \o r.evaluated)

\* any(f.matches(device) for f in self.filters)
RECURSIVE AnyOf(_, _)
AnyOf(fs, d) ==
    IF fs = << >> THEN Result(FALSE, << >>)
    ELSE LET h == DeviceFilter_matches(Head(fs), d)
         IN  IF h.kind = "raise" THEN h
             ELSE IF h.value THEN Result(TRUE, h.evaluated)
             ELSE LET r == AnyOf(Tail(fs), d)
                  IN  IF r.kind = "raise" THEN r
                      ELSE Result(r.value, h.evaluated \o r.evaluated)

FilterGroupWithoutEmptyCase(g, d) ==
    IF g.operator = "and" THEN AllOf(g.filters, d)
    ELSE IF g.operator = "or" THEN AnyOf(g.filters, d)
    ELSE Raise("ValueError", "Unknown operator: " \o g.operator)
FilterGroup_matches(g, d) ==
    IF g.filters = << >> THEN Result(TRUE, << >>)
    ELSE IF g.operator = "and" THEN AllOf(g.filters, d)
    ELSE IF g.operator = "or" THEN AnyOf(g.filters, d)
    ELSE Raise("ValueError", "Unknown operator: " \o g.operator)


\* the leaf predicates evaluated on their own
BatteryOperators == {"<=", "<", ">=", ">", "==", "!="}
BatteryThresholds == {15, 20}
AllLeafFilters ==
    {StatusFilter(b) : b \in BOOLEAN}
    \cup {CapabilityFilter(c) : c \in {"switch", "switchLevel", "battery"}}
    \cup {RoomFilter(n, cs) : n \in {Chars("Den"), Chars("Room ID: "), <<"x">>},
                               cs \in BOOLEAN}
    \cup {NameFilter(n, m, cs) : n \in {Chars("Lamp"), StrLower(Chars("Dimmer")), <<"m">>},
                                  m \in {"exact", "contains", "startswith", "regex"},
                                  cs \in BOOLEAN}
    \cup {BatteryLevelFilter(l, o) : l \in BatteryThresholds, o \in BatteryOperators}
    \cup {TypeFilter(t, cs) : t \in {Chars("LAN"), StrLower(Chars("ZIGBEE")), Chars("")},
                               cs \in BOOLEAN}

\* the leaf predicates composed, and the composed filters of n predicates
LeafFilters ==
    {StatusFilter(TRUE), StatusFilter(FALSE),
     CapabilityFilter("switch"), CapabilityFilter("battery"),
     NameFilter(<<"m">>, "contains", FALSE), BatteryLevelFilter(20, "<")}

RECURSIVE FiltersOfSize(_)
FiltersOfSize(n) ==
    IF n = 1 THEN LeafFilters
    ELSE {NotFilter(f) : f \in FiltersOfSize(n - 1)}
         \cup UNION {UNION {{AndFilter(a, b), OrFilter(a, b)} :
                              a \in FiltersOfSize(i), b \in FiltersOfSize(n - 1 - i)} :
                       i \in 1..(n - 2)}

Operators == {"and", "or", "AND", "OR", "xor"}

\* the calls a caller may make: f.matches(d) on a filter built with the
\* classes, (a & b).matches(d), (a | b).matches(d), (~a).matches(d), and
\* FilterGroup(filters, operator).matches(d)
MatchCalls ==
    {[op |-> "matches", how |-> "class", filter |-> f, device |-> d] :
        f \in AllLeafFilters \cup UNION {FiltersOfSize(n) : n \in 1..MaxNodes},
        d \in FilterDevices}
OperatorCallsOfSize(n) ==
    UNION {UNION {{[op |-> "matches", how |-> "&", filter |-> DeviceFilter_and(a, b), device |-> d],
                   [op |-> "matches", how |-> "|", filter |-> DeviceFilter_or(a, b), device |-> d]} :
                     a \in FiltersOfSize(i), b \in FiltersOfSize(n - 1 - i),
                     d \in FilterDevices} :
             i \in 1..(n - 2)}
    \cup {[op |-> "matches", how |-> "~", filter |-> DeviceFilter_invert(a), device |-> d] :
            a \in FiltersOfSize(n - 1), d \in FilterDevices}
OperatorCalls == UNION {OperatorCallsOfSize(n) : n \in 2..MaxNodes}
GroupCalls ==
    {[op |-> "group_matches", filters |-> fs, operator |-> o, device |-> d] :
        fs \in SeqsUpTo(LeafFilters, MaxFilters), o \in Operators, d \in FilterDevices}

FilterInit ==
    /\ DispatcherIdle
    /\ OthersUnused
    /\ call \in MatchCalls \cup OperatorCalls \cup GroupCalls
    /\ ret = NoCall

\* call.filter.matches(call.device)
Matches ==
    /\ ret = NoCall
    /\ call.op = "matches"
    /\ ret' = DeviceFilter_matches(call.filter, call.device)
    /\ UNCHANGED <<call, dvars, ovars>>

\* FilterGroup(call.filters, call.operator).matches(call.device)
GroupMatches ==
    /\ ret = NoCall
    /\ call.op = "group_matches"
    /\ LET g == FilterGroup_init(call.filters, call.operator)
       IN  ret' = IF g.kind = "raise" THEN g ELSE FilterGroup_matches(g.value, call.device)
    /\ UNCHANGED <<call, dvars, ovars>>

FilterNext == Matches \/ GroupMatches

FilterSpec == FilterInit /\ [][FilterNext]_vars


(***************************************************************************)
(* Properties of the predicates.                                           *)
(***************************************************************************)
\* the truth value a filter denotes for a device: that of a leaf is what its
\* matches returns, that of a composite the logical and / or / not of the
\* values of its children
RECURSIVE Holds(_, _)
Holds(f, d) ==
    CASE f.cls = "AndFilter" -> Holds(f.filter1, d) /\ Holds(f.filter2, d)
      [] f.cls = "OrFilter" -> Holds(f.filter1, d) \/ Holds(f.filter2, d)
      [] f.cls = "NotFilter" -> ~Holds(f.filter_to_negate, d)
      [] OTHER -> DeviceFilter_matches(f, d).value

GroupCalled == call.op = "group_matches" /\ ret # NoCall
MatchesCalled == call.op = "matches" /\ ret # NoCall

\* C18: matches of a FilterGroup in mode "and" or "or" returns True when the
\* group holds no predicate, in both modes; otherwise it returns, in mode
\* "and", the conjunction and, in mode "or", the disjunction of the results
\* of matches of its members, for every combination of these results; the
\* members are evaluated in list order, up to the first that decides.
C18_GroupReduction ==
    (GroupCalled /\ Lower(call.operator) \in {"and", "or"}) =>
       LET fs     == call.filters
           val(i) == Holds(fs[i], call.device)
           mode   == Lower(call.operator)
           stop   == IF mode = "and" THEN {i \in 1..Len(fs) : ~val(i)}
                     ELSE {i \in 1..Len(fs) : val(i)}
           last   == IF stop = {} THEN Len(fs)
                     ELSE CHOOSE i \in stop : \A j \in stop : i <= j
       IN  /\ ret.kind = "return"
           /\ fs = << >> => ret.value = TRUE
           /\ (fs # << >> /\ mode = "and") => ret.value = (\A i \in 1..Len(fs) : val(i))
           /\ (fs # << >> /\ mode = "or") => ret.value = (\E i \in 1..Len(fs) : val(i))
           /\ ret.evaluated = SubSeq(fs, 1, last)

C18_Witness ==
    /\ GroupCalled
    /\ call.operator = "or"
    /\ Len(call.filters) = MaxFilters
    /\ ~Holds(call.filters[1], call.device)
    /\ Holds(call.filters[2], call.device)
    /\ ret.value = TRUE
    /\ ret.evaluated = SubSeq(call.filters, 1, 2)

\* C19 as stated: a FilterGroup whose mode is neither "and" nor "or" never
\* yields a match result: for every device and whatever predicates the group
\* holds, the caller gets an error (at construction or from matches), never
\* a truth value.
C19_UnknownModeRaises ==
    (GroupCalled /\ Lower(call.operator) \notin {"and", "or"}) => ret.kind = "raise"

\* C20: matches of AndFilter(P, Q), of OrFilter(P, Q) and of NotFilter(P),
\* built with the classes or with &, | and ~, is the logical and, or, not of
\* the results of matches of the children, at any depth of composition; and
\* and or evaluate the left child first, and the right child only when the
\* left one does not decide the result.
C20_BooleanComposition ==
    MatchesCalled =>
       LET f    == call.filter
           d    == call.device
           m(p) == DeviceFilter_matches(p, d)
       IN  /\ ret.kind = "return"
           /\ ret.value = Holds(f, d)
           /\ f.cls = "AndFilter" =>
                /\ ret.value = (m(f.filter1).value /\ m(f.filter2).value)
                /\ ret.evaluated = m(f.filter1).evaluated
                     \o (IF m(f.filter1).value THEN m(f.filter2).evaluated ELSE << >>)
           /\ f.cls = "OrFilter" =>
                /\ ret.value = (m(f.filter1).value \/ m(f.filter2).value)
                /\ ret.evaluated = m(f.filter1).evaluated
                     \o (IF m(f.filter1).value THEN << >> ELSE m(f.filter2).evaluated)
           /\ f.cls = "NotFilter" =>
                /\ ret.value = ~m(f.filter_to_negate).value
                /\ ret.evaluated = m(f.filter_to_negate).evaluated

C20_Witness ==
    /\ MatchesCalled
    /\ call.how = "&"
    /\ call.filter.filter1.cls = "NotFilter"
    /\ call.filter.filter2.cls = "CapabilityFilter"
    /\ ~Holds(call.filter.filter1, call.device)
    /\ Holds(call.filter.filter2, call.device)
    /\ ret.value = FALSE
    /\ ret.evaluated = <<call.filter.filter1.filter_to_negate>>


C22_BatteryComparison ==
    (MatchesCalled /\ call.filter.cls = "BatteryLevelFilter") =>
       LET b  == Device_battery_level(call.device)
           l  == call.filter.level
           op == call.filter.operator
       IN  ret.value =
             /\ b # None
             /\ \/ op = "<=" /\ b[1] <= l
                \/ op = "<" /\ b[1] < l
                \/ op = ">=" /\ b[1] >= l
                \/ op = ">" /\ b[1] > l
                \/ op = "==" /\ b[1] = l


\* the device the call is about would get a unit of work, not a skip record,
\* from execute of act
NotSkippedBy(act, d) == Eligible(act, <<d>>) = <<d>>

\* C28 as stated: for every Device d and capability c,
\* CapabilityFilter(c).matches(d) equals d.has_capability(c); hence a device
\* selected by CapabilityFilter("switch") is never skipped by SwitchAction,
\* nor one selected by CapabilityFilter("switchLevel") by LevelAction.
C28_FilterIsHasCapability ==
    (MatchesCalled /\ call.filter.cls = "CapabilityFilter") =>
       /\ ret.value = Device_has_capability(call.device, call.filter.capability)
       /\ (ret.value /\ call.filter.capability = "switch") =>
             NotSkippedBy(SwitchAction_init(TRUE).value, call.device)
       /\ (ret.value /\ call.filter.capability = "switchLevel") =>
             NotSkippedBy(LevelAction_init(30).value, call.device)

\* C28 amended: for every Device d whose device object has a capabilities
\* list, CapabilityFilter(c).matches(d) equals d.has_capability(c), so such
\* a device selected by CapabilityFilter("switch") is not skipped by
\* SwitchAction, and likewise for "switchLevel" and LevelAction.  For a
\* Device whose device object has no capabilities list, has_capability is
\* False for every c, while CapabilityFilter("switch") and
\* CapabilityFilter("battery") match it by inference from its operations:
\* such a device is selected by CapabilityFilter("switch") and skipped by
\* SwitchAction.
C28_FilterIsHasCapabilityIfListed ==
    (MatchesCalled /\ call.filter.cls = "CapabilityFilter") =>
       LET d == call.device
           c == call.filter.capability
       IN  IF "capabilities" \in st_attrs(d)
           THEN /\ ret.value = Device_has_capability(d, c)
                /\ (ret.value /\ c = "switch") => NotSkippedBy(SwitchAction_init(TRUE).value, d)
                /\ (ret.value /\ c = "switchLevel") => NotSkippedBy(LevelAction_init(30).value, d)
           ELSE /\ ~Device_has_capability(d, c)
                /\ ret.value = (c \in {"switch", "battery"})
                /\ ~NotSkippedBy(SwitchAction_init(TRUE).value, d)

C28_Witness ==
    /\ MatchesCalled
    /\ call.filter = CapabilityFilter("switch")
    /\ "capabilities" \in st_attrs(call.device)
    /\ ret.value = TRUE
    /\ Device_has_capability(call.device, "switch")
    /\ NotSkippedBy(SwitchAction_init(FALSE).value, call.device)


(***************************************************************************)
(* DeviceCollection (device_collection.py): add, remove, save, load.  A    *)
(* step is one call on the collection, or one load of a saved file.        *)
(***************************************************************************)
\* Device objects: two objects may wrap the same device_id
DeviceObjects ==
    {[device_id |-> i, obj |-> "a"] : i \in Devices} \cup {[device_id |-> "d1", obj |-> "b"]}

CollectionNames == {"My Lights", ""}

DeviceCollection_init(name, devs) ==
    [name |-> name, devices |-> IF devs = None THEN << >> ELSE devs[1],
     device_ids |-> << >>, controller |-> None]

\* the outcome of a method: what it returns or raises, and the object after it
Outcome(out, self) == [ret |-> out, self |-> self]

AddWithoutCheck(self, device) ==
    Outcome(Return(TRUE), [self EXCEPT !.devices = Append(@, device)])
DeviceCollection_add(self, device) ==
    LET device_ids == [i \in 1..Len(self.devices) |-> self.devices[i].device_id]
    IN  IF \E i \in 1..Len(device_ids) : device_ids[i] = device.device_id
        THEN Outcome(Return(FALSE), self)
        ELSE Outcome(Return(TRUE), [self EXCEPT !.devices = Append(@, device)])

\* list.pop(i)
Pop(seq, i) == SubSeq(seq, 1, i - 1) \o SubSeq(seq, i + 1, Len(seq))

\* device_or_id is a Device object or a device_id string
DeviceCollection_remove(self, device_or_id) ==
    LET device_id == IF device_or_id.kind = "device" THEN device_or_id.device.device_id
                     ELSE device_or_id.id
        found     == {i \in 1..Len(self.devices) : self.devices[i].device_id = device_id}
    IN  IF found = {} THEN Outcome(Return(FALSE), self)
        ELSE LET i == CHOOSE j \in found : \A k \in found : j <= k
             IN  Outcome(Return(TRUE), [self EXCEPT !.devices = Pop(@, i)])

\* f"{self.name.lower().replace(' ', '_')}.json", for the names in use
DefaultFilename(name) ==
    CASE name = "My Lights" -> "my_lights.json"
      [] OTHER -> ".json"

Filenames == {"my_lights.json"}
Paths == {"my_lights.json", "other.json"}

\* save writes the JSON object under the filename given, or under the one
\* made from the name; it returns the path
DeviceCollection_save(self, filename) ==
    IF self.name = "" /\ filename = None
    THEN [ret |-> Raise("ValueError",
                        "Collection must have a name or filename must be provided"),
          path |-> None, data |-> None]
    ELSE LET path       == IF filename = None THEN DefaultFilename(self.name) ELSE filename[1]
             device_ids == [i \in 1..Len(self.devices) |-> self.devices[i].device_id]
         IN  [ret |-> Return(path), path |-> Some(path),
              data |-> Some([name |-> self.name, device_count |-> Len(device_ids),
                             device_ids |-> device_ids])]

\* load reads the JSON object and builds a new collection
DeviceCollection_load(fs, filename, ctl, load_devices) ==
    IF filename \notin DOMAIN fs
    THEN Raise("FileNotFoundError", "Collection file not found")
    ELSE LET data       == fs[filename]
             name       == data.name
             device_ids == data.device_ids
             coll       == DeviceCollection_init(name, None)
         IN  IF load_devices /\ ctl # None /\ device_ids # << >>
             THEN Return([coll EXCEPT !.device_ids = device_ids, !.controller = ctl,
                                      !.devices = << >>])
             ELSE Return(coll)

CollectionInit ==
    /\ DispatcherIdle
    /\ call = NoCall
    /\ ret = NoCall
    /\ overlap = Unused
    /\ controller = Unused
    /\ location = Unused
    /\ \E name \in CollectionNames : collection = DeviceCollection_init(name, None)
    /\ files = EmptyDict

Add(device) ==
    /\ \/ Len(collection.devices) < MaxDevices
       \/ DeviceCollection_add(collection, device).ret = Return(FALSE)
    /\ LET o == DeviceCollection_add(collection, device)
       IN  /\ call' = [op |-> "add", device |-> device]
           /\ ret' = o.ret
           /\ collection' = o.self
    /\ UNCHANGED <<dvars, files, overlap, controller, location>>

Remove(device_or_id) ==
    /\ LET o == DeviceCollection_remove(collection, device_or_id)
       IN  /\ call' = [op |-> "remove", device_or_id |-> device_or_id]
           /\ ret' = o.ret
           /\ collection' = o.self
    /\ UNCHANGED <<dvars, files, overlap, controller, location>>

Save(filename) ==
    /\ LET o == DeviceCollection_save(collection, filename)
       IN  /\ call' = [op |-> "save", filename |-> filename]
           /\ ret' = o.ret
           /\ files' = IF o.path = None THEN files ELSE Put(files, o.path[1], o.data[1])
    /\ UNCHANGED <<dvars, collection, overlap, controller, location>>

Load(filename, ctl, load_devices) ==
    /\ call' = [op |-> "load", filename |-> filename, controller |-> ctl,
                load_devices |-> load_devices]
    /\ ret' = DeviceCollection_load(files, filename, ctl, load_devices)
    /\ UNCHANGED <<dvars, collection, files, overlap, controller, location>>

CollectionNext ==
    \/ \E device \in DeviceObjects : Add(device)
    \/ \E device \in DeviceObjects : Remove([kind |-> "device", device |-> device])
    \/ \E id \in Devices : Remove([kind |-> "id", id |-> id])
    \/ \E filename \in {None} \cup {Some(f) : f \in Filenames} : Save(filename)
    \/ \E filename \in Paths, ctl \in {None, Some("ctl")}, load_devices \in BOOLEAN :
          Load(filename, ctl, load_devices)

CollectionSpec == CollectionInit /\ [][CollectionNext]_vars


IdsIn(devs) == {devs[i].device_id : i \in 1..Len(devs)}
NoDuplicateIds(devs) ==
    \A i, j \in 1..Len(devs) : devs[i].device_id = devs[j].device_id => i = j

\* C23: add appends the device and returns True only when no device of the
\* collection has its device_id, otherwise it returns False and leaves the
\* collection unchanged; remove deletes the device with the given device_id
\* and returns True, or returns False and leaves the collection unchanged;
\* so a collection that starts empty never holds two devices with the same
\* device_id, whatever adds and removes are made.
C23_AddRemove ==
    [][/\ call'.op = "add" =>
            IF call'.device.device_id \in IdsIn(collection.devices)
            THEN ret' = Return(FALSE) /\ collection' = collection
            ELSE /\ ret' = Return(TRUE)
                 /\ collection' = [collection EXCEPT !.devices = Append(@, call'.device)]
       /\ call'.op = "remove" =>
            LET id == IF call'.device_or_id.kind = "device"
                      THEN call'.device_or_id.device.device_id
                      ELSE call'.device_or_id.id
            IN  IF id \in IdsIn(collection.devices)
                THEN /\ ret' = Return(TRUE)
                     /\ collection'.devices =
                          SelectSeq(collection.devices, LAMBDA x : x.device_id # id)
                     /\ collection'.name = collection.name
                ELSE ret' = Return(FALSE) /\ collection' = collection
       /\ NoDuplicateIds(collection'.devices)]_vars

C23_Witness ==
    /\ call.op = "add"
    /\ call.device = [device_id |-> "d1", obj |-> "b"]
    /\ ret = Return(FALSE)
    /\ Len(collection.devices) = MaxDevices
    /\ collection.devices[1] = [device_id |-> "d1", obj |-> "a"]

\* C29 as stated: loading a file that save wrote yields a collection with
\* the name and the device_ids that were saved, whether or not a controller
\* is given and whatever the value of load_devices.
C29_SaveLoadRoundTrip ==
    (call.op = "load" /\ call.filename \in DOMAIN files) =>
       /\ ret.kind = "return"
       /\ ret.value.name = files[call.filename].name
       /\ ret.value.device_ids = files[call.filename].device_ids


(***************************************************************************)
(* SmartThingsController: the locations and rooms it fetches and caches.   *)
(* The API has two locations; "L3" is a location id the API does not know. *)
(* Each call meets an API of which some endpoints fail (a status other     *)
(* than 200, or an exception): the handler prints and goes on.             *)
(***************************************************************************)
Locations == {"L1", "L2"}
LocationIds == Locations \cup {"L3"}
Endpoints == {"locations"} \cup Locations

\* the 'items' of GET /locations/{loc_id}/rooms
api_rooms(loc_id) ==
    CASE loc_id = "L1" -> {[roomId |-> "r1", name |-> "Kitchen"],
                           [roomId |-> "r2", name |-> "Garden"]}
      [] loc_id = "L2" -> {[roomId |-> "r3", name |-> "Office"]}
      [] OTHER -> {}

\* the 'items' of GET /locations, keyed by locationId
api_locations == [l \in Locations |-> [locationId |-> l]]

SmartThingsController_init ==
    [cached_locations |-> None, cached_rooms |-> None, room_id_to_name |-> EmptyDict]

\* "if self._cached_x:" is false for None and for an empty dict
Truthy(cached) == cached # None /\ cached[1] # EmptyDict

SmartThingsController_get_locations(self, down) ==
    IF Truthy(self.cached_locations)
    THEN Outcome(Return(self.cached_locations[1]), self)
    ELSE IF "locations" \notin down
         THEN Outcome(Return(api_locations),
                      [self EXCEPT !.cached_locations = Some(api_locations)])
         ELSE Outcome(Return(EmptyDict), self)

\* the rooms fetched for the locations asked, each with its locationId added
FetchRooms(locs, down) ==
    LET got == {l \in locs : l \in Locations /\ l \notin down}
        ids == UNION {{room.roomId : room \in api_rooms(l)} : l \in got}
    IN  [room_id \in ids |->
            LET l    == CHOOSE x \in got : \E room \in api_rooms(x) : room.roomId = room_id
                room == CHOOSE x \in api_rooms(l) : x.roomId = room_id
            IN  [roomId |-> room.roomId, name |-> room.name, locationId |-> l]]

GetRoomsWithoutCache(self, location_id, down) ==
    LET locs  == IF location_id # None THEN Outcome(Return([l \in {location_id[1]} |->
                                                       [locationId |-> l]]), self)
                 ELSE SmartThingsController_get_locations(self, down)
        rooms == FetchRooms(DOMAIN locs.ret.value, down)
    IN  Outcome(Return(rooms),
                [locs.self EXCEPT !.cached_rooms = Some(rooms),
                                  !.room_id_to_name = [r \in DOMAIN rooms |-> rooms[r].name]])

SmartThingsController_get_rooms(self, location_id, down) ==
    IF Truthy(self.cached_rooms)
    THEN Outcome(Return(self.cached_rooms[1]), self)
    ELSE GetRoomsWithoutCache(self, location_id, down)

ControllerInit ==
    /\ DispatcherIdle
    /\ call = NoCall
    /\ ret = NoCall
    /\ overlap = Unused
    /\ collection = Unused
    /\ files = Unused
    /\ location = Unused
    /\ controller = SmartThingsController_init

GetLocations(down) ==
    /\ LET o == SmartThingsController_get_locations(controller, down)
       IN  /\ call' = [op |-> "get_locations", down |-> down]
           /\ ret' = o.ret
           /\ controller' = o.self
    /\ UNCHANGED <<dvars, overlap, collection, files, location>>

GetRooms(location_id, down) ==
    /\ LET o == SmartThingsController_get_rooms(controller, location_id, down)
       IN  /\ call' = [op |-> "get_rooms", location_id |-> location_id, down |-> down]
           /\ ret' = o.ret
           /\ controller' = o.self
    /\ UNCHANGED <<dvars, overlap, collection, files, location>>

ControllerNext ==
    \/ \E down \in SUBSET Endpoints : GetLocations(down)
    \/ \E location_id \in {None} \cup {Some(l) : l \in LocationIds},
          down \in SUBSET Endpoints : GetRooms(location_id, down)

ControllerSpec == ControllerInit /\ [][ControllerNext]_vars

AllRoomIds == UNION {{room.roomId : room \in api_rooms(l)} : l \in Locations}

\* C24 as stated: get_rooms(location_id) returns only rooms of the given
\* location, and the rooms of all locations when location_id is omitted
\* (and the API answers every request), whatever get_rooms calls were made
\* before on the same controller.
C24_RoomsOfGivenLocation ==
    call.op = "get_rooms" =>
        IF call.location_id # None
        THEN \A r \in DOMAIN ret.value : ret.value[r].locationId = call.location_id[1]
        ELSE call.down = {} => DOMAIN ret.value = AllRoomIds


(***************************************************************************)
(* WateringController: the rules of the location, as the Rules API holds   *)
(* them, and the daily run that replaces the watering rule.  A rule name   *)
(* is the sequence of the parts it was formatted from.  Each run meets an  *)
(* API of which some request methods fail (raise_for_status raises).       *)
(***************************************************************************)
RULE_NAME_PREFIX == "Auto Watering"
Methods == {"GET", "DELETE", "POST"}
Days == {"2024-06-01", "2024-06-02"}

\* name.startswith(RULE_NAME_PREFIX), for names made of parts
StartsWithPrefix(name) == Len(name) > 0 /\ name[1] = RULE_NAME_PREFIX

\* a forecast says, for today and the two days after, whether the weather
\* code means rain and the probability of precipitation is at least 50
Forecasts == [1..3 -> BOOLEAN]

WateringController_get_existing_rules(rules, down) ==
    IF "GET" \in down THEN {}
    ELSE {[id |-> rule.id, name |-> rule.name] : rule \in {r \in rules : StartsWithPrefix(r.name)}}

\* the rules left at the location by delete_rules(rule_ids); its result is
\* whether every deletion succeeded
WateringController_delete_rules(rules, rule_ids, down) ==
    IF "DELETE" \in down
    THEN [success |-> rule_ids = {}, rules |-> rules]
    ELSE [success |-> TRUE, rules |-> {r \in rules : r.id \notin rule_ids}]

WateringController_create_watering_rule(loc, switch_device_id, name, down) ==
    IF switch_device_id = None \/ "POST" \in down
    THEN [rule_id |-> None, loc |-> loc]
    ELSE [rule_id |-> Some(loc.next_id),
          loc |-> [rules |-> loc.rules \cup {[id |-> loc.next_id, name |-> name]},
                   next_id |-> loc.next_id + 1]]

WateringController_check_rain_in_days(forecast, days_ahead) ==
    \E i \in 1..days_ahead : forecast[i]

DeleteThenCreate(loc, switch_device_id, forecast, today_str, down) ==
    LET existing_rules == WateringController_get_existing_rules(loc.rules, down)
        deleted  == IF existing_rules # {}
                    THEN WateringController_delete_rules(loc.rules,
                             {rule.id : rule \in existing_rules}, down).rules
                    ELSE loc.rules
        loc1     == [loc EXCEPT !.rules = deleted]
        kind     == IF WateringController_check_rain_in_days(forecast, 3)
                    THEN " - Light Watering " ELSE " - Normal Watering "
        created  == WateringController_create_watering_rule(loc1, switch_device_id,
                        <<RULE_NAME_PREFIX, kind, today_str>>, down)
    IN  IF WateringController_check_rain_in_days(forecast, 1)
        THEN Outcome(Return(TRUE), loc1)
        ELSE Outcome(Return(created.rule_id # None), created.loc)

\* forecast is None when the forecast could not be fetched or processed
WateringController_create_rules_based_on_weather(loc, switch, forecast, today_str, down) ==
    IF forecast = None THEN Outcome(Return(FALSE), loc)
    ELSE DeleteThenCreate(loc, switch, forecast[1], today_str, down)

WateringRules(rules) == {r \in rules : StartsWithPrefix(r.name)}

WateringInit ==
    /\ DispatcherIdle
    /\ call = NoCall
    /\ ret = NoCall
    /\ overlap = Unused
    /\ collection = Unused
    /\ files = Unused
    /\ controller = Unused
    /\ location = [rules |-> {[id |-> 0, name |-> <<"Good Night">>]}, next_id |-> 1]

DailyRun(switch_device_id, forecast, today_str, down) ==
    /\ location.next_id <= MaxRules
    /\ LET o == WateringController_create_rules_based_on_weather(
                    location, switch_device_id, forecast, today_str, down)
       IN  /\ call' = [op |-> "create_rules_based_on_weather",
                       switch_device_id |-> switch_device_id, forecast |-> forecast,
                       today_str |-> today_str, down |-> down]
           /\ ret' = o.ret
           /\ location' = o.self
    /\ UNCHANGED <<dvars, overlap, collection, files, controller>>

WateringNext ==
    \E switch_device_id \in {None, Some("water-switch")},
       forecast \in {None} \cup {Some(f) : f \in Forecasts},
       today_str \in Days, down \in SUBSET Methods :
          DailyRun(switch_device_id, forecast, today_str, down)

WateringSpec == WateringInit /\ [][WateringNext]_vars

\* C30 as stated: when create_rules_based_on_weather has returned True, at
\* most one rule whose name starts with 'Auto Watering' exists at the
\* location, and none when rain is expected today.
C30_AtMostOneWateringRule ==
    (call.op = "create_rules_based_on_weather" /\ ret = Return(TRUE)) =>
        /\ Cardinality(WateringRules(location.rules)) <= 1
        /\ call.forecast[1][1] => WateringRules(location.rules) = {}


\* C27 as stated: a RefreshAction record has success true only if the
\* refresh of the underlying device object succeeded (Device.refresh
\* returned True); when that refresh failed (Device.refresh returned False)
\* the record has success false and an error message.
C27_SuccessOnlyIfRefreshed ==
    \A d \in Devices :
       (action.cls = "RefreshAction" /\ HadUnit(d) /\ Device_device_id(d) \in DOMAIN results) =>
          LET r == results[Device_device_id(d)]
          IN  /\ r.success => own[d] = Return("True")
              /\ own[d] = Return("False") => ~r.success /\ "error" \in DOMAIN r


(***************************************************************************)
(* Several execute calls on one SwitchAction instance.  self.results is a  *)
(* reference to a dict object: the heap holds the dict objects, and every  *)
(* read of self.results is made when the statement runs.  A call is        *)
(* suspended at its gather while its units of work are pending, and        *)
(* another call may start then.  writer is history: which call wrote the   *)
(* record of each key of each dict.                                        *)
(***************************************************************************)
OverlapAction == [cls |-> "SwitchAction", turn_on |-> TRUE]
CallIds == 1..MaxCalls
CallDevices == {<<"d1", "d3">>, <<"d2">>, <<"d3">>}

NewCall ==
    [st |-> "new", devices |-> << >>, tasks |-> << >>, overlapped |-> FALSE,
     ref |-> 0, value |-> EmptyDict, by |-> EmptyDict]

\* "self.results.clear()" in the place of "self.results = {}"
ClearInPlace(o) ==
    [o EXCEPT !.heap[o.self_results] = EmptyDict, !.writer[o.self_results] = EmptyDict]
\* "self.results = {}": a new dict object is bound to the attribute
Rebind(o) ==
    [o EXCEPT !.heap = Append(@, EmptyDict), !.writer = Append(@, EmptyDict),
              !.self_results = Len(o.heap) + 1]

\* "self.results[device.device_id] = record" run by call c
WriteRecord(o, c, id, rec) ==
    [o EXCEPT !.heap[o.self_results] = Put(@, id, rec),
              !.writer[o.self_results] = Put(@, id, c)]

\* execute of call c from the completion of its gather to its return: the
\* skip loop on self.results, then "return self.results"
Finish(o, c) ==
    LET ref == o.self_results
        old == o.heap[ref]
        tw  == AfterGather(OverlapAction, [t |-> old, w |-> [id \in Devices |-> 0]],
                           o.calls[c].devices)
        by  == [k \in DOMAIN tw.t |-> IF k \in DOMAIN old THEN o.writer[ref][k] ELSE c]
    IN  [o EXCEPT !.heap[ref] = tw.t,
                  !.writer[ref] = by,
                  !.calls[c].st = "returned",
                  !.calls[c].ref = ref,
                  !.calls[c].value = tw.t,
                  !.calls[c].by = by]

Joined(o) == {c \in CallIds : o.calls[c].st = "joined"}

OverlapInit ==
    /\ DispatcherIdle
    /\ call = NoCall
    /\ ret = NoCall
    /\ collection = Unused
    /\ files = Unused
    /\ controller = Unused
    /\ location = Unused
    /\ overlap = [self_results |-> 1, heap |-> <<EmptyDict>>, writer |-> <<EmptyDict>>,
                  calls |-> [c \in CallIds |-> NewCall]]

\* execute of call c from its start to its suspension at gather; a gather of
\* no task is done at once, and execute then runs to its return
OverlapExecuteStart(c, devs) ==
    /\ overlap.calls[c].st = "new"
    /\ \A b \in 1..(c - 1) : overlap.calls[b].st # "new"
    /\ LET others   == Joined(overlap)
           eligible == Eligible(OverlapAction, devs)
           o1 == Rebind(overlap)
           o2 == [o1 EXCEPT !.calls =
                     [b \in CallIds |->
                        IF b = c
                        THEN [NewCall EXCEPT
                                !.st = "joined", !.devices = devs,
                                !.overlapped = (others # {}),
                                !.tasks = [i \in 1..Len(eligible) |->
                                             [device |-> eligible[i], st |-> "awaiting"]]]
                        ELSE IF b \in others THEN [@[b] EXCEPT !.overlapped = TRUE]
                        ELSE @[b]]]
       IN  overlap' = IF eligible = << >> THEN Finish(o2, c) ELSE o2
    /\ UNCHANGED <<dvars, call, ret, collection, files, controller, location>>

\* a unit of work of call c, from the end of its device call to its end
OverlapUnitResume(c, i, out) ==
    /\ overlap.calls[c].st = "joined"
    /\ i \in 1..Len(overlap.calls[c].tasks)
    /\ overlap.calls[c].tasks[i].st = "awaiting"
    /\ LET d   == overlap.calls[c].tasks[i].device
           fin == UnitEnd(OverlapAction, d, out)
       IN  /\ out \in OpOutcomes(OverlapAction, d)
           /\ fin.st = "done"
           /\ overlap' = [WriteRecord(overlap, c, Device_device_id(d), fin.rec)
                             EXCEPT !.calls[c].tasks[i].st = "done"]
    /\ UNCHANGED <<dvars, call, ret, collection, files, controller, location>>

OverlapExecuteResume(c) ==
    /\ overlap.calls[c].st = "joined"
    /\ \A i \in 1..Len(overlap.calls[c].tasks) : overlap.calls[c].tasks[i].st = "done"
    /\ overlap' = Finish(overlap, c)
    /\ UNCHANGED <<dvars, call, ret, collection, files, controller, location>>

OverlapNext ==
    \/ \E c \in CallIds, devs \in CallDevices : OverlapExecuteStart(c, devs)
    \/ \E c \in CallIds, i \in 1..MaxLen, out \in StOutcomes : OverlapUnitResume(c, i, out)
    \/ \E c \in CallIds : OverlapExecuteResume(c)

OverlapSpec == OverlapInit /\ [][OverlapNext]_vars

ReturnedCalls == {c \in CallIds : overlap.calls[c].st = "returned"}

\* C25 as stated: when execute calls on one instance overlap, each call
\* still returns a table holding records for exactly its own devices, each
\* record written by its own run.
C25_OwnTableUnderOverlap ==
    \A c \in ReturnedCalls :
       /\ DOMAIN overlap.calls[c].value = Ids(overlap.calls[c].devices)
       /\ \A k \in DOMAIN overlap.calls[c].by : overlap.calls[c].by[k] = c

\* C26: the mapping an execute call returned is not modified by any later
\* execute call that does not overlap it: the dict object it returned still
\* holds what it held at the return.
C26_ReturnedMappingKept ==
    \A c \in ReturnedCalls :
       ~overlap.calls[c].overlapped =>
          overlap.heap[overlap.calls[c].ref] = overlap.calls[c].value

C26_Witness ==
    /\ ReturnedCalls = CallIds
    /\ \A c \in CallIds : ~overlap.calls[c].overlapped
    /\ overlap.calls[1].value # EmptyDict
    /\ overlap.calls[2].value # overlap.calls[1].value
    /\ overlap.heap[overlap.calls[1].ref] = overlap.calls[1].value


====
